---- MODULE Spec2Model ----
(***************************************************************************)
(* kindle-to-md: converts a Bookcision JSON export of Kindle highlights to *)
(* Markdown (src/src/kindle_to_md.py).                                     *)
(*                                                                         *)
(* A Python str is a sequence of tokens: the characters of the data        *)
(* (title, text, note, ...) one by one, the fragments of the f-string      *)
(* literals as they stand in the source, every newline a token "\n" of    *)
(* its own.  A JSON object is a function whose DOMAIN is the set of keys   *)
(* it has, so that a missing key is a key outside the DOMAIN.              *)
(***************************************************************************)
EXTENDS Integers, Sequences, FiniteSets, TLC

VARIABLES
    \* ---- one run of main() ----
    argv,             \* sys.argv, the program name first
    fs,               \* the file system: path -> file
    fs0,              \* the file system when the process started (history)
    pc,               \* where main() stands
    input_filename,   \* main's locals
    output_filename,
    kindle_data,
    markdown_text,
    error,            \* the exception in flight, if any
    failed_in,        \* the stage that raised it (history)
    handles,          \* the file objects that are open
    opened,           \* every open() call that succeeded so far (history)
    stdout,           \* what was printed, in order
    traceback,        \* an uncaught exception reached the interpreter
    exit_status,      \* the process's exit status, -1 while it runs
    \* ---- kindle_to_md applied to a document ----
    doc, notes_section, md_result,
    \* ---- single_entry_to_md applied to an entry ----
    entry, entry_result

mainVars   == << argv, fs, fs0, pc, input_filename, output_filename, kindle_data,
                 markdown_text, error, failed_in, handles, opened, stdout,
                 traceback, exit_status >>
renderVars == << doc, notes_section, md_result >>
entryVars  == << entry, entry_result >>
vars       == << mainVars, renderVars, entryVars >>

(***************************************************************************)
(* Bounds of the model.                                                    *)
(***************************************************************************)
\* the longest `highlights` list of a document given to kindle_to_md
MaxEntries == 2
\* the largest number of positional command line arguments
MaxArgs == 3

(***************************************************************************)
(* Values.                                                                 *)
(***************************************************************************)
\* JSON null / a JSON string, as `note` can be either
JNull   == [kind |-> "null", s |-> << >>]
JStr(s) == [kind |-> "str", s |-> s]

\* a dict without keys
EmptyDict == << >>
Has(d, k) == k \in DOMAIN d

\* Python's truth value of None or of a str
Truthy(v) == v.kind = "str" /\ v.s # << >>

\* the outcome of a call: a returned value, or a raised exception
Ok(v)            == [ok |-> TRUE, val |-> v, err |-> "", msg |-> << >>]
Raise(kind, msg) == [ok |-> FALSE, val |-> << >>, err |-> kind, msg |-> msg]
NotCalled        == [ok |-> FALSE, val |-> << >>, err |-> "not called", msg |-> << >>]

InvalidCommandLineArguments == "InvalidCommandLineArguments"
MisformattedKindleData      == "MisformattedKindleData"
FileNotFoundError           == "FileNotFoundError"
PermissionError             == "PermissionError"
KeyError                    == "KeyError"

(***************************************************************************)
(* single_entry_to_md                                                      *)
(***************************************************************************)
kindle_link(entry_data) ==
    <<"[">> \o entry_data.location.value \o <<"](">> \o entry_data.location.url
        \o <<")">>

\* the KeyError handler of single_entry_to_md
entry_KeyError == Raise(MisformattedKindleData, <<"Kindle export missing expeced fields.">>)

\* note_only_line testing isNoteOnly alone: a line for an empty note too
note_only_line_unguarded(entry_data) ==
    IF entry_data.isNoteOnly
    THEN <<"- Note: ">> \o entry_data.note.s \o <<" (">> \o kindle_link(entry_data)
             \o <<")", "\n">>
    ELSE << >>

\* line 128-129
note_only_line(entry_data) ==
    IF entry_data.isNoteOnly /\ Truthy(entry_data.note) /\ entry_data.note.s # << >>
    THEN <<"- Note: ">> \o entry_data.note.s \o <<" (">> \o kindle_link(entry_data)
             \o <<")", "\n">>
    ELSE << >>

\* sub_bullet without its `if`: the sub-bullet under every text line
sub_bullet_unguarded(entry_data) ==
    <<"    - Note: ">> \o entry_data.note.s \o <<"\n">>

\* line 133-134
sub_bullet(entry_data) ==
    IF Truthy(entry_data.note) /\ entry_data.note.s # << >>
    THEN <<"    - Note: ">> \o entry_data.note.s \o <<"\n">>
    ELSE << >>

\* line 131-134
text_lines(entry_data) ==
    IF ~entry_data.isNoteOnly /\ entry_data.text # << >>
    THEN <<"- ">> \o entry_data.text \o <<" (">> \o kindle_link(entry_data)
             \o <<")", "\n">> \o sub_bullet(entry_data)
    ELSE << >>

\* single_entry_to_md without the two isNoteOnly/text checks
single_entry_to_md_unchecked(entry_data) ==
    IF \/ ~Has(entry_data, "location")
       \/ ~Has(entry_data.location, "value")
       \/ ~Has(entry_data.location, "url")
    THEN entry_KeyError
    ELSE IF ~Has(entry_data, "isNoteOnly") THEN entry_KeyError
    ELSE IF ~Has(entry_data, "text") THEN entry_KeyError
    ELSE IF ~Has(entry_data, "note") THEN entry_KeyError
    ELSE Ok(note_only_line(entry_data) \o text_lines(entry_data))

single_entry_to_md(entry_data) ==
    IF \/ ~Has(entry_data, "location")
       \/ ~Has(entry_data.location, "value")
       \/ ~Has(entry_data.location, "url")
    THEN entry_KeyError
    ELSE IF ~Has(entry_data, "isNoteOnly") THEN entry_KeyError
    \* `text` is read on line 122 when isNoteOnly is true, on line 125 when not
    ELSE IF ~Has(entry_data, "text") THEN entry_KeyError
    ELSE IF entry_data.isNoteOnly /\ entry_data.text # << >>
    THEN Raise(MisformattedKindleData, << >>)
    ELSE IF ~entry_data.isNoteOnly /\ entry_data.text = << >>
    THEN Raise(MisformattedKindleData, << >>)
    \* `note` is read on line 128 when isNoteOnly is true, on line 133 when not
    ELSE IF ~Has(entry_data, "note") THEN entry_KeyError
    ELSE Ok(note_only_line(entry_data) \o text_lines(entry_data))

(***************************************************************************)
(* kindle_to_md                                                            *)
(***************************************************************************)
\* render_entries going on after an entry that raised: the entry is left out
RECURSIVE render_entries_skipping(_)
render_entries_skipping(highlights) ==
    IF highlights = << >> THEN Ok(<< >>)
    ELSE LET first == single_entry_to_md(Head(highlights))
             rest  == render_entries_skipping(Tail(highlights))
         IN  IF ~first.ok THEN rest ELSE Ok(first.val \o rest.val)

\* a for loop of `markdown_str += single_entry_to_md( highlight )`: the
\* renderings in order, or the first exception raised
RECURSIVE render_entries(_)
render_entries(highlights) ==
    IF highlights = << >> THEN Ok(<< >>)
    ELSE LET first == single_entry_to_md(Head(highlights))
         IN  IF ~first.ok THEN first
             ELSE LET rest == render_entries(Tail(highlights))
                  IN  IF ~rest.ok THEN rest ELSE Ok(first.val \o rest.val)

\* the filter of line 94 written `if i['note']`
note_is_truthy(i) == Truthy(i.note)

\* line 94: [ i for i in kindle_data['highlights'] if i['note'] is not None ]
note_is_not_None(i) == i.note.kind # "null"

highlights_with_notes(data) ==
    IF ~Has(data, "highlights") THEN Raise(KeyError, <<"'highlights'">>)
    ELSE IF \E n \in 1..Len(data.highlights) :
                ~Has(data.highlights[n], "note")
    THEN Raise(KeyError, <<"'note'">>)
    ELSE Ok(SelectSeq(data.highlights, note_is_not_None))

\* line 91-99
notes_part(data) ==
    LET with_notes == highlights_with_notes(data)
    IN  IF ~with_notes.ok
        THEN Raise(MisformattedKindleData, <<"Kindle export missing expected fields.">>)
        ELSE LET body == render_entries(with_notes.val)
             IN  IF ~body.ok THEN body
                 ELSE Ok(<<"## Highlights with Notes", "\n", "\n">> \o body.val
                             \o <<"\n", "\n">>)

\* line 101-103
all_part(data) ==
    IF ~Has(data, "highlights") THEN Raise(KeyError, <<"'highlights'">>)
    ELSE LET body == render_entries(data.highlights)
         IN  IF ~body.ok THEN body
             ELSE Ok(<<"## All Highlights", "\n", "\n">> \o body.val)

\* line 85-89
header_part(data) ==
    IF ~Has(data, "title") \/ ~Has(data, "authors")
    THEN Raise(MisformattedKindleData,
               <<"Kindle export missing title or author fields.">>)
    ELSE Ok(<<"# ">> \o data.title \o <<"\n", "\n">>
                \o <<"Authors: ">> \o data.authors \o <<"\n", "\n">>)

kindle_to_md(data, with_notes_section) ==
    LET header == header_part(data)
        notes  == IF with_notes_section THEN notes_part(data) ELSE Ok(<< >>)
        all    == all_part(data)
    IN  IF ~header.ok THEN header
        ELSE IF ~notes.ok THEN notes
        ELSE IF ~all.ok THEN all
        ELSE Ok(header.val \o notes.val \o all.val)

(***************************************************************************)
(* The inputs.                                                             *)
(***************************************************************************)
\* a dict with the key k bound to one of vs, or without the key
Optional(k, vs) == { k :> v : v \in vs } \cup { EmptyDict }
Required(k, vs) == { k :> v : v \in vs }

Texts == { << >>, <<"H", "i">> }
Notes == { JNull, JStr(<< >>), JStr(<<"n">>) }
FullLocation == [value |-> <<"5">>, url |-> <<"u">>]
Locations == { EmptyDict, [value |-> <<"5">>], [url |-> <<"u">>], FullLocation }

\* every entry single_entry_to_md is applied to: each key present or not
EntryUniverse ==
    { a @@ b @@ c @@ d :
        a \in Optional("isNoteOnly", BOOLEAN),
        b \in Optional("text", Texts),
        c \in Optional("note", Notes),
        d \in Optional("location", Locations) }

\* the entries of the documents kindle_to_md is applied to: every
\* isNoteOnly/text/note combination with a complete location, `note`
\* present or not, and the entries with an incomplete location
DocEntries ==
    { a @@ b @@ c @@ d :
        a \in Required("isNoteOnly", BOOLEAN),
        b \in Required("text", Texts),
        c \in Optional("note", Notes),
        d \in Required("location", {FullLocation}) }
    \cup
    { a @@ b @@ c @@ d :
        a \in Required("isNoteOnly", {FALSE}),
        b \in Required("text", {<<"H", "i">>}),
        c \in Required("note", {JNull, JStr(<<"n">>)}),
        d \in Optional("location", Locations \ {FullLocation}) }

SeqsUpTo(S, n) == UNION { [1..k -> S] : k \in 0..n }

Documents ==
    { a @@ b @@ c :
        a \in Optional("title", {<<"T">>}),
        b \in Optional("authors", {<<"A">>}),
        c \in Optional("highlights", SeqsUpTo(DocEntries, MaxEntries)) }

(***************************************************************************)
(* Files, standard output and the command line.                            *)
(***************************************************************************)
\* Optional[str]: None, or a file name
None    == [none |-> TRUE, path |-> ""]
Some(p) == [none |-> FALSE, path |-> p]

NoError == Ok(<< >>)

\* what a file holds: text that json.load accepts (with the value it parses
\* to) or text that it rejects
JsonContent(d) == [json |-> TRUE, data |-> d, text |-> << >>]
TextContent(t) == [json |-> FALSE, data |-> EmptyDict, text |-> t]

\* a file of the file system; perm is what this process may do with it, and a
\* path with dir = FALSE lies in a directory that does not exist
File(perm, content) == [exists |-> TRUE, dir |-> TRUE, perm |-> perm, content |-> content]
Missing             == [exists |-> FALSE, dir |-> TRUE, perm |-> "rw", content |-> TextContent(<< >>)]
NoDirectory         == [exists |-> FALSE, dir |-> FALSE, perm |-> "rw", content |-> TextContent(<< >>)]

\* print( x ): the text and a newline
print_line(text) == text \o <<"\n">>

\* line 165-175, the dedented text
help_text ==
    << "Converts JSON Amazon Kindle notes generated by Bookcision to markdown.", "\n",
       "\n",
       "Bookcision (https://bookcision.readwise.io/) is a bookmarklet that exports", "\n",
       "Kindle notes and highlights (https://read.amazon.com/notebook). This script", "\n",
       "converts notes and highlights exported as JSON to markdown.", "\n",
       "\n",
       "Syntax: kindle-to-md <inputfile.json> [<outputfile.md>]", "\n",
       "\n",
       "If outputfile is omitted, will be printed to stdout.", "\n" >>

\* what show_help( help_message ) prints; main always passes str( error ),
\* which is never None
show_help(help_message) ==
    print_line(help_message \o <<"\n">>) \o print_line(help_text)

\* open( file_name, 'r' )
open_r(file, path) ==
    IF ~file.exists
    THEN Raise(FileNotFoundError, <<"[Errno 2] No such file or directory: ", path>>)
    ELSE IF file.perm = "none"
    THEN Raise(PermissionError, <<"[Errno 13] Permission denied: ", path>>)
    ELSE Ok(file)

\* open( filename, 'a' ): the file created or kept as it is
open_a(file, path) ==
    IF ~file.dir
    THEN Raise(FileNotFoundError, <<"[Errno 2] No such file or directory: ", path>>)
    ELSE IF file.exists /\ file.perm # "rw"
    THEN Raise(PermissionError, <<"[Errno 13] Permission denied: ", path>>)
    ELSE Ok(IF file.exists THEN file ELSE File("rw", TextContent(<< >>)))

\* open( filename, 'w' ): the file created or truncated
open_w(file, path) ==
    IF ~file.dir
    THEN Raise(FileNotFoundError, <<"[Errno 2] No such file or directory: ", path>>)
    ELSE IF file.exists /\ file.perm # "rw"
    THEN Raise(PermissionError, <<"[Errno 13] Permission denied: ", path>>)
    ELSE Ok(File("rw", TextContent(<< >>)))

\* file.write( output_text ): the text goes where the file ends
file_write(file, output_text) ==
    [file EXCEPT !.content = TextContent(file.content.text \o output_text)]

\* json.load( file ) within the try of parse_json_file
json_load(file) ==
    IF file.content.json THEN Ok(file.content.data)
    ELSE Raise(MisformattedKindleData, <<"Input file is not a valid JSON document.">>)

\* parse_command_line_arguments with the upper limit off by one
parse_command_line_arguments_lenient(sys_argv) ==
    IF Len(sys_argv) < 2 \/ Len(sys_argv) > 4
    THEN Raise(InvalidCommandLineArguments,
               <<"Incorrect number of command line arguments.">>)
    ELSE Ok([input_filename  |-> sys_argv[2],
             output_filename |-> IF Len(sys_argv) = 3 THEN Some(sys_argv[3]) ELSE None])

\* line 43-52
parse_command_line_arguments(sys_argv) ==
    IF Len(sys_argv) < 2 \/ Len(sys_argv) > 3
    THEN Raise(InvalidCommandLineArguments,
               <<"Incorrect number of command line arguments.">>)
    ELSE Ok([input_filename  |-> sys_argv[2],
             output_filename |-> IF Len(sys_argv) = 3 THEN Some(sys_argv[3]) ELSE None])

\* line 24: the exceptions main handles
Handled == { InvalidCommandLineArguments, MisformattedKindleData, FileNotFoundError }

(***************************************************************************)
(* The inputs of a run.                                                    *)
(***************************************************************************)
InputPath  == "a.json"
OutputPath == "b.md"
NoDirPath  == "nodir/c.md"
Paths      == { InputPath, OutputPath, NoDirPath }

TextWithNote == [isNoteOnly |-> FALSE, text |-> <<"H", "i">>, note |-> JStr(<<"n">>),
                 location |-> FullLocation]
TextNoNote   == [isNoteOnly |-> FALSE, text |-> <<"H", "i">>, note |-> JNull,
                 location |-> FullLocation]
NoteAlone    == [isNoteOnly |-> TRUE, text |-> << >>, note |-> JStr(<<"n">>),
                 location |-> FullLocation]
Clashing     == [isNoteOnly |-> TRUE, text |-> <<"H", "i">>, note |-> JNull,
                 location |-> FullLocation]
NoLocation   == [isNoteOnly |-> FALSE, text |-> <<"H", "i">>, note |-> JStr(<<"n">>)]

Book(highlights) == [title |-> <<"T">>, authors |-> <<"A">>, highlights |-> highlights]

\* the exports a run is given
Exports ==
    { Book(<< >>),
      Book(<<TextNoNote, NoteAlone, TextWithNote>>),
      Book(<<TextWithNote, Clashing>>),
      Book(<<NoLocation, TextNoNote>>),
      [authors |-> <<"A">>, highlights |-> <<TextNoNote>>],
      [title |-> <<"T">>, authors |-> <<"A">>] }

OldText == <<"o", "l", "d", "\n">>

FileSystems ==
    { (InputPath :> a) @@ (OutputPath :> b) @@ (NoDirPath :> NoDirectory) :
        a \in { Missing, File("rw", TextContent(<<"{">>)) }
                \cup { File("rw", JsonContent(d)) : d \in Exports }
                \cup { File("none", JsonContent(Book(<<TextNoNote>>))),
                       File("r", JsonContent(Book(<<TextNoNote>>))) },
        b \in { Missing, File("rw", TextContent(OldText)), File("r", TextContent(OldText)) } }

CommandLines ==
    { <<"kindle-to-md">> \o args : args \in SeqsUpTo(Paths, MaxArgs) }

(***************************************************************************)
(* main                                                                    *)
(***************************************************************************)
Init ==
    /\ argv \in CommandLines
    /\ fs \in FileSystems
    /\ fs0 = fs
    /\ pc = "parse_command_line_arguments"
    /\ input_filename = "" /\ output_filename = None
    /\ kindle_data = EmptyDict /\ markdown_text = << >>
    /\ error = NoError /\ failed_in = ""
    /\ handles = {} /\ opened = {}
    /\ stdout = << >> /\ traceback = FALSE /\ exit_status = -1
    /\ doc = EmptyDict /\ notes_section = TRUE /\ md_result = NotCalled
    /\ entry = EmptyDict /\ entry_result = NotCalled

otherVars == << renderVars, entryVars >>

\* line 20
ParseCommandLineArguments ==
    /\ pc = "parse_command_line_arguments"
    /\ LET r == parse_command_line_arguments(argv)
       IN  IF r.ok
           THEN /\ input_filename' = r.val.input_filename
                /\ output_filename' = r.val.output_filename
                /\ pc' = "open_input"
                /\ UNCHANGED << error, failed_in >>
           ELSE /\ error' = r /\ failed_in' = "arguments"
                /\ pc' = "except"
                /\ UNCHANGED << input_filename, output_filename >>
    /\ UNCHANGED << argv, fs, fs0, kindle_data, markdown_text, handles, opened,
                    stdout, traceback, exit_status, otherVars >>

\* line 65: with open( file_name, 'r' ) as file
OpenInput ==
    /\ pc = "open_input"
    /\ LET r == open_r(fs[input_filename], input_filename)
       IN  IF r.ok
           THEN /\ handles' = handles \cup { [path |-> input_filename, mode |-> "r"] }
                /\ opened' = opened \cup { [path |-> input_filename, mode |-> "r"] }
                /\ pc' = "json_load"
                /\ UNCHANGED << error, failed_in >>
           ELSE /\ error' = r /\ failed_in' = "open_input"
                /\ pc' = "except"
                /\ UNCHANGED << handles, opened >>
    /\ UNCHANGED << argv, fs, fs0, input_filename, output_filename, kindle_data,
                    markdown_text, stdout, traceback, exit_status, otherVars >>

\* line 66-69
JsonLoad ==
    /\ pc = "json_load"
    /\ LET r == json_load(fs[input_filename])
       IN  IF r.ok
           THEN kindle_data' = r.val /\ UNCHANGED << error, failed_in >>
           ELSE error' = r /\ failed_in' = "load" /\ UNCHANGED kindle_data
    /\ pc' = "close_input"
    /\ UNCHANGED << argv, fs, fs0, input_filename, output_filename, markdown_text,
                    handles, opened, stdout, traceback, exit_status, otherVars >>

\* CloseInput with a close() after json.load instead of the with block: the
\* exception passes it by
CloseInputOnReturn ==
    /\ pc = "close_input"
    /\ handles' = IF error.ok
                  THEN handles \ { [path |-> input_filename, mode |-> "r"] }
                  ELSE handles
    /\ pc' = IF error.ok THEN "kindle_to_md" ELSE "except"
    /\ UNCHANGED << argv, fs, fs0, input_filename, output_filename, kindle_data,
                    markdown_text, error, failed_in, opened, stdout, traceback,
                    exit_status, otherVars >>

\* line 65, leaving the with block: by return (line 70) or by the exception
CloseInput ==
    /\ pc = "close_input"
    /\ handles' = handles \ { [path |-> input_filename, mode |-> "r"] }
    /\ pc' = IF error.ok THEN "kindle_to_md" ELSE "except"
    /\ UNCHANGED << argv, fs, fs0, input_filename, output_filename, kindle_data,
                    markdown_text, error, failed_in, opened, stdout, traceback,
                    exit_status, otherVars >>

\* line 22: notes_section takes its default
KindleToMd ==
    /\ pc = "kindle_to_md"
    /\ LET r == kindle_to_md(kindle_data, TRUE)
       IN  IF r.ok
           THEN /\ markdown_text' = r.val /\ pc' = "write_output"
                /\ UNCHANGED << error, failed_in >>
           ELSE /\ error' = r /\ failed_in' = "render" /\ pc' = "except"
                /\ UNCHANGED markdown_text
    /\ UNCHANGED << argv, fs, fs0, input_filename, output_filename, kindle_data,
                    handles, opened, stdout, traceback, exit_status, otherVars >>

\* line 148-150
PrintOutput ==
    /\ pc = "write_output"
    /\ output_filename.none
    /\ stdout' = stdout \o print_line(markdown_text)
    /\ pc' = "return"
    /\ UNCHANGED << argv, fs, fs0, input_filename, output_filename, kindle_data,
                    markdown_text, error, failed_in, handles, opened, traceback,
                    exit_status, otherVars >>

\* line 152: with open( filename, 'w' ) as file
OpenOutput ==
    /\ pc = "write_output"
    /\ ~output_filename.none
    /\ LET path == output_filename.path
           r    == open_w(fs[path], path)
       IN  IF r.ok
           THEN /\ fs' = [fs EXCEPT ![path] = r.val]
                /\ handles' = handles \cup { [path |-> path, mode |-> "w"] }
                /\ opened' = opened \cup { [path |-> path, mode |-> "w"] }
                /\ pc' = "file_write"
                /\ UNCHANGED << error, failed_in >>
           ELSE /\ error' = r /\ failed_in' = "open_output"
                /\ pc' = "except"
                /\ UNCHANGED << fs, handles, opened >>
    /\ UNCHANGED << argv, fs0, input_filename, output_filename, kindle_data,
                    markdown_text, stdout, traceback, exit_status, otherVars >>

\* line 153
FileWrite ==
    /\ pc = "file_write"
    /\ fs' = [fs EXCEPT ![output_filename.path] = file_write(@, markdown_text)]
    /\ pc' = "close_output"
    /\ UNCHANGED << argv, fs0, input_filename, output_filename, kindle_data,
                    markdown_text, error, failed_in, handles, opened, stdout,
                    traceback, exit_status, otherVars >>

\* line 152, leaving the with block
CloseOutput ==
    /\ pc = "close_output"
    /\ handles' = handles \ { [path |-> output_filename.path, mode |-> "w"] }
    /\ pc' = "return"
    /\ UNCHANGED << argv, fs, fs0, input_filename, output_filename, kindle_data,
                    markdown_text, error, failed_in, opened, stdout, traceback,
                    exit_status, otherVars >>

\* main returns and the interpreter exits
Return ==
    /\ pc = "return"
    /\ exit_status' = 0
    /\ pc' = "exited"
    /\ UNCHANGED << argv, fs, fs0, input_filename, output_filename, kindle_data,
                    markdown_text, error, failed_in, handles, opened, stdout,
                    traceback, otherVars >>

\* line 24-25
ShowHelp ==
    /\ pc = "except"
    /\ error.err \in Handled
    /\ stdout' = stdout \o show_help(error.msg)
    /\ pc' = "sys_exit"
    /\ UNCHANGED << argv, fs, fs0, input_filename, output_filename, kindle_data,
                    markdown_text, error, failed_in, handles, opened, traceback,
                    exit_status, otherVars >>

\* line 26
SysExit ==
    /\ pc = "sys_exit"
    /\ exit_status' = 1
    /\ pc' = "exited"
    /\ UNCHANGED << argv, fs, fs0, input_filename, output_filename, kindle_data,
                    markdown_text, error, failed_in, handles, opened, stdout,
                    traceback, otherVars >>

\* line 24: no except clause matches; the interpreter prints the traceback to
\* standard error and exits with status 1
Unhandled ==
    /\ pc = "except"
    /\ error.err \notin Handled
    /\ traceback' = TRUE
    /\ exit_status' = 1
    /\ pc' = "exited"
    /\ UNCHANGED << argv, fs, fs0, input_filename, output_filename, kindle_data,
                    markdown_text, error, failed_in, handles, opened, stdout,
                    otherVars >>

Next ==
    \/ ParseCommandLineArguments
    \/ OpenInput
    \/ JsonLoad
    \/ CloseInput
    \/ KindleToMd
    \/ PrintOutput
    \/ OpenOutput
    \/ FileWrite
    \/ CloseOutput
    \/ Return
    \/ ShowHelp
    \/ SysExit
    \/ Unhandled

Spec == Init /\ [][Next]_vars

(***************************************************************************)
(* single_entry_to_md applied to one entry.                                *)
(***************************************************************************)
MainIdle ==
    /\ argv = << >> /\ fs = << >> /\ fs0 = << >> /\ pc = "idle"
    /\ input_filename = "" /\ output_filename = None /\ kindle_data = EmptyDict
    /\ markdown_text = << >> /\ error = NoError /\ failed_in = ""
    /\ handles = {} /\ opened = {} /\ stdout = << >> /\ traceback = FALSE
    /\ exit_status = -1
RenderIdle == doc = EmptyDict /\ notes_section = TRUE /\ md_result = NotCalled
EntryIdle  == entry = EmptyDict /\ entry_result = NotCalled

InitEntry ==
    /\ entry \in EntryUniverse
    /\ entry_result = NotCalled
    /\ MainIdle /\ RenderIdle

CallSingleEntryToMd ==
    /\ entry_result = NotCalled
    /\ entry_result' = single_entry_to_md(entry)
    /\ UNCHANGED << entry, mainVars, renderVars >>

NextEntry == CallSingleEntryToMd
SpecEntry == InitEntry /\ [][NextEntry]_vars

(***************************************************************************)
(* kindle_to_md applied to one document, with either value of the flag.    *)
(***************************************************************************)
InitRender ==
    /\ doc \in Documents
    /\ notes_section \in BOOLEAN
    /\ md_result = NotCalled
    /\ MainIdle /\ EntryIdle

CallKindleToMd ==
    /\ md_result = NotCalled
    /\ md_result' = kindle_to_md(doc, notes_section)
    /\ UNCHANGED << doc, notes_section, mainVars, entryVars >>

NextRender == CallKindleToMd
SpecRender == InitRender /\ [][NextRender]_vars

(***************************************************************************)
(* What the claims say of an entry, written from the claims' words.        *)
(***************************************************************************)
LocationIncomplete(e) ==
    \/ ~Has(e, "location")
    \/ ~Has(e.location, "value")
    \/ ~Has(e.location, "url")

Contradictory(e) ==
    /\ Has(e, "isNoteOnly") /\ Has(e, "text")
    /\ \/ e.isNoteOnly /\ e.text # << >>
       \/ ~e.isNoteOnly /\ e.text = << >>

\* every key present, the location complete, isNoteOnly and text agreeing
WellFormed(e) ==
    /\ Has(e, "isNoteOnly") /\ Has(e, "text") /\ Has(e, "note")
    /\ ~LocationIncomplete(e)
    /\ ~Contradictory(e)

NonEmptyNote(e) == e.note.kind = "str" /\ e.note.s # << >>

Link(e)         == <<"[">> \o e.location.value \o <<"](">> \o e.location.url \o <<")">>
ParentBullet(e) == <<"- ">> \o e.text \o <<" (">> \o Link(e) \o <<")", "\n">>
NoteBullet(e)   == <<"- Note: ">> \o e.note.s \o <<" (">> \o Link(e) \o <<")", "\n">>
SubBullet(e)    == <<"    - Note: ">> \o e.note.s \o <<"\n">>

ExpectedEntry(e) ==
    IF e.isNoteOnly
    THEN IF NonEmptyNote(e) THEN NoteBullet(e) ELSE << >>
    ELSE IF NonEmptyNote(e) THEN ParentBullet(e) \o SubBullet(e) ELSE ParentBullet(e)

Newlines(str) == Cardinality({ i \in 1..Len(str) : str[i] = "\n" })

\* C9: for a non-contradictory entry with a complete location,
\* single_entry_to_md returns the empty string (note-only, note null or
\* empty), the one line `- Note: <note> (<link>)` (note-only, note
\* non-empty), the one line `- <text> (<link>)` (text, note null or empty) or
\* that line directly followed by the sub-bullet `    - Note: <note>`; every
\* line ends in a newline, the link is `[<value>](<url>)`, and a sub-bullet
\* only ever stands directly after its parent bullet.
C9_EntryLines ==
    (entry_result # NotCalled /\ WellFormed(entry)) =>
        /\ entry_result = Ok(ExpectedEntry(entry))
        /\ Newlines(entry_result.val) \in 0..2
        /\ entry_result.val # << >> =>
               entry_result.val[Len(entry_result.val)] = "\n"
        /\ \A i \in 1..Len(entry_result.val) :
               entry_result.val[i] = "    - Note: " =>
                   /\ i > 1
                   /\ SubSeq(entry_result.val, 1, i - 1) = ParentBullet(entry)

\* a text entry with a note was rendered: the parent bullet and its sub-bullet
C9_Witness ==
    /\ entry_result # NotCalled /\ WellFormed(entry)
    /\ ~entry.isNoteOnly /\ NonEmptyNote(entry)
    /\ entry_result.ok /\ Newlines(entry_result.val) = 2

(***************************************************************************)
(* What the claims say of a document.                                      *)
(***************************************************************************)
Called == md_result # NotCalled

BadEntry(e) == Contradictory(e) \/ LocationIncomplete(e)

Malformed(r) == ~r.ok /\ r.err = MisformattedKindleData

\* C4 (as claimed): a document without `title`, `authors` or `highlights`
\* makes kindle_to_md fail with MisformattedKindleData, whatever the flag.
C4_MissingTopLevelKey ==
    (Called /\ (~Has(doc, "title") \/ ~Has(doc, "authors") \/ ~Has(doc, "highlights")))
        => Malformed(md_result)

\* C5: single_entry_to_md fails with MisformattedKindleData on a contradictory
\* entry and on an entry whose location is missing or incomplete, and a
\* document with such an entry anywhere in `highlights` makes kindle_to_md
\* fail with MisformattedKindleData, whatever the entry's note, the other
\* entries and the flag.
C5_BadEntryAborts ==
    (Called /\ Has(doc, "highlights")) =>
        \A n \in 1..Len(doc.highlights) :
            BadEntry(doc.highlights[n]) =>
                /\ Malformed(single_entry_to_md(doc.highlights[n]))
                /\ Malformed(md_result)

\* the bad entry is the second one, its note is null (so only the "All
\* Highlights" loop meets it), and the entry before it renders
C5_Witness ==
    /\ Called /\ notes_section /\ Has(doc, "title") /\ Has(doc, "authors")
    /\ Has(doc, "highlights") /\ Len(doc.highlights) = 2
    /\ WellFormed(doc.highlights[1])
    /\ Contradictory(doc.highlights[2])
    /\ Has(doc.highlights[2], "note") /\ doc.highlights[2].note = JNull
    /\ Malformed(md_result)

\* the document without its n-th entry
Without(d, n) ==
    [d EXCEPT !.highlights =
        SubSeq(d.highlights, 1, n - 1) \o SubSeq(d.highlights, n + 1, Len(d.highlights))]

\* a note-only entry with empty text and a complete location
NoteOnly(e) ==
    /\ Has(e, "isNoteOnly") /\ e.isNoteOnly
    /\ Has(e, "text") /\ e.text = << >>
    /\ ~LocationIncomplete(e)

\* C6 (as claimed): a note-only entry whose note is empty, null or absent is
\* skipped: if the document renders without it, it renders to the same
\* string with it.
C6_SilentEntryAsClaimed ==
    (Called /\ Has(doc, "highlights")) =>
        \A n \in 1..Len(doc.highlights) :
            (/\ NoteOnly(doc.highlights[n])
             /\ Has(doc.highlights[n], "note") => ~NonEmptyNote(doc.highlights[n]))
                => (kindle_to_md(Without(doc, n), notes_section).ok
                        => md_result = kindle_to_md(Without(doc, n), notes_section))

\* C6 (amended): a note-only entry whose `note` key is present and is the
\* empty string or null produces no line in either section and does not make
\* the run fail: kindle_to_md gives what it gives for the document without
\* that entry.
C6_SilentEntry ==
    (Called /\ Has(doc, "highlights")) =>
        \A n \in 1..Len(doc.highlights) :
            (/\ NoteOnly(doc.highlights[n])
             /\ Has(doc.highlights[n], "note")
             /\ ~NonEmptyNote(doc.highlights[n]))
                => md_result = kindle_to_md(Without(doc, n), notes_section)

\* a document rendered with both sections, holding a note-only entry with the
\* empty string as note (which the "Highlights with Notes" filter lets in)
\* next to an entry that does produce lines
C6_Witness ==
    /\ Called /\ notes_section /\ md_result.ok
    /\ Len(doc.highlights) = 2
    /\ NoteOnly(doc.highlights[1]) /\ doc.highlights[1].note = JStr(<< >>)
    /\ ~doc.highlights[2].isNoteOnly /\ NonEmptyNote(doc.highlights[2])

ValidDocument(d) ==
    /\ Has(d, "title") /\ Has(d, "authors") /\ Has(d, "highlights")
    /\ \A n \in 1..Len(d.highlights) : WellFormed(d.highlights[n])

RECURSIVE Renderings(_)
Renderings(es) ==
    IF es = << >> THEN << >> ELSE ExpectedEntry(Head(es)) \o Renderings(Tail(es))

NoteNonNull(e) == e.note # JNull

ExpectedDocument(d) ==
    <<"# ">> \o d.title \o <<"\n", "\n">>
        \o <<"Authors: ">> \o d.authors \o <<"\n", "\n">>
        \o <<"## Highlights with Notes", "\n", "\n">>
        \o Renderings(SelectSeq(d.highlights, NoteNonNull))
        \o <<"\n", "\n">>
        \o <<"## All Highlights", "\n", "\n">>
        \o Renderings(d.highlights)

\* C7: for a valid document and the flag on, kindle_to_md returns the title
\* heading, the Authors line, the "Highlights with Notes" heading with the
\* renderings of exactly the entries whose note is non-null, in source order,
\* a blank separator, and the "All Highlights" heading with the renderings of
\* every entry in source order, nothing sorted and nothing dropped.
C7_DocumentLayout ==
    (Called /\ notes_section /\ ValidDocument(doc)) =>
        md_result = Ok(ExpectedDocument(doc))

\* two entries that render differently: the first without a note (so only
\* "All Highlights" has it), the second a note-only entry with a note (so
\* both sections have it)
C7_Witness ==
    /\ Called /\ notes_section /\ ValidDocument(doc) /\ md_result.ok
    /\ Len(doc.highlights) = 2
    /\ doc.highlights[1].note = JNull /\ ~doc.highlights[1].isNoteOnly
    /\ doc.highlights[2].isNoteOnly /\ NonEmptyNote(doc.highlights[2])

(***************************************************************************)
(* What the claims say of a run of main().                                 *)
(***************************************************************************)
Exited == pc = "exited"

\* the stages the claims name: argument resolution, loading, rendering
FailedBeforeWriting == failed_in \in {"arguments", "open_input", "load", "render"}

\* the failure's message, a blank line, the help text
HelpOutput(message) == message \o <<"\n", "\n">> \o help_text \o <<"\n">>

HelpTextIn(out) ==
    \E i \in 1..Len(out) : \E j \in i..Len(out) : SubSeq(out, i, j) = help_text

\* every string kindle_to_md returns starts with the title heading
MarkdownIn(out) == \E i \in 1..Len(out) : out[i] = "# "

OpenedForWriting == \E h \in opened : h.mode = "w"

NothingWritten == fs = fs0 /\ ~OpenedForWriting /\ ~MarkdownIn(stdout)

\* C1 (as claimed): a run that fails on the argument count, on opening or
\* reading the input (missing or otherwise unreadable), on invalid JSON, on a
\* missing field or on a contradictory entry prints the failure's message and
\* the help text to standard output and then exits with status 1; a run that
\* does not fail exits with status 0 and prints no help text.
C1_FailurePrintsHelp ==
    /\ (Exited /\ FailedBeforeWriting) =>
           /\ stdout = HelpOutput(error.msg)
           /\ ~traceback
           /\ exit_status = 1
    /\ (Exited /\ failed_in = "") =>
           /\ exit_status = 0
           /\ ~HelpTextIn(stdout)

WritingStages == {"write_output", "file_write", "close_output", "return"}

\* C2: write_output is entered only with the complete Markdown string that
\* kindle_to_md returned; when argument resolution, loading or rendering
\* fails, and whenever the export holds a malformed entry anywhere in
\* `highlights`, no file is opened for writing, created or truncated and no
\* Markdown reaches standard output.
C2_NoPartialOutput ==
    /\ (pc \in WritingStages \/ OpenedForWriting \/ MarkdownIn(stdout) \/ fs # fs0) =>
           /\ failed_in \in {"", "open_output"}
           /\ ValidDocument(kindle_data)
           /\ markdown_text = ExpectedDocument(kindle_data)
    /\ FailedBeforeWriting => NothingWritten
    /\ (/\ Has(kindle_data, "highlights")
        /\ \E n \in 1..Len(kindle_data.highlights) : BadEntry(kindle_data.highlights[n]))
           => NothingWritten

\* the run that was to overwrite an existing file ended on a contradictory
\* second entry
C2_Witness ==
    /\ Exited /\ failed_in = "render"
    /\ ~output_filename.none /\ fs0[output_filename.path].exists
    /\ Has(kindle_data, "highlights") /\ Len(kindle_data.highlights) = 2
    /\ WellFormed(kindle_data.highlights[1])
    /\ Contradictory(kindle_data.highlights[2])

Positional == Len(argv) - 1

\* C3: with 1 or 2 positional arguments the resolver returns the input path
\* and the output path (None when there is one argument); with 0 or with 3 or
\* more it raises InvalidCommandLineArguments, and that run prints the help
\* and exits non-zero without a file ever being opened.
C3_ArgumentCount ==
    pc # "parse_command_line_arguments" =>
        IF Positional \in {1, 2}
        THEN /\ failed_in # "arguments"
             /\ input_filename = argv[2]
             /\ output_filename = IF Positional = 2 THEN Some(argv[3]) ELSE None
        ELSE /\ failed_in = "arguments"
             /\ error.err = InvalidCommandLineArguments
             /\ opened = {} /\ handles = {} /\ fs = fs0
             /\ Exited => /\ stdout = HelpOutput(error.msg)
                          /\ exit_status # 0

\* three positional arguments, the first an input that could have been read
C3_Witness ==
    /\ Exited /\ Positional = 3
    /\ fs[argv[2]].exists /\ fs[argv[2]].content.json
    /\ exit_status = 1

\* C8: when write_output returns, either no output path was given, the
\* rendered string and one newline are all of standard output and no file was
\* opened for writing; or one was given, that path was opened for writing, the
\* file holds exactly the rendered string, no other file changed and nothing
\* went to standard output.
C8_WriterRouting ==
    (Exited /\ exit_status = 0) =>
        IF output_filename.none
        THEN /\ stdout = markdown_text \o <<"\n">>
             /\ ~OpenedForWriting
             /\ fs = fs0
        ELSE /\ [path |-> output_filename.path, mode |-> "w"] \in opened
             /\ fs[output_filename.path].exists
             /\ fs[output_filename.path].content = TextContent(markdown_text)
             /\ \A p \in Paths \ {output_filename.path} : fs[p] = fs0[p]
             /\ stdout = << >>

\* an existing file with other content was overwritten
C8_Witness ==
    /\ Exited /\ exit_status = 0 /\ ~output_filename.none
    /\ fs0[output_filename.path].exists
    /\ fs0[output_filename.path].content = TextContent(OldText)
    /\ markdown_text # << >>

InputHandle == [path |-> input_filename, mode |-> "r"]

\* C10: at most one file handle is open at any time; the loader's handle is
\* released before rendering starts and before the output path is opened,
\* after a successful parse and after a JSON parse error alike; and no handle
\* is open when the process has terminated.
C10_HandlesScoped ==
    /\ Cardinality(handles) <= 1
    /\ pc \in {"parse_command_line_arguments", "open_input", "kindle_to_md",
               "write_output", "return", "except", "sys_exit", "exited"}
           => handles = {}
    /\ pc \in {"file_write", "close_output"}
           => handles = { [path |-> output_filename.path, mode |-> "w"] }
    /\ pc \in {"json_load", "close_input"} => handles = { InputHandle }

\* the run ended on the JSON parse error, after the input had been opened
C10_Witness ==
    /\ Exited /\ failed_in = "load"
    /\ InputHandle \in opened
    /\ handles = {}

====
